---- MODULE Spec2Model ----
(***************************************************************************)
(* Model of the cw-wjuno wrapper contract (src/src/contract.rs).           *)
(*                                                                         *)
(* The contract keeps one persisted record, STATE = {owner, contract,      *)
(* native_coin}.  Each entry point loads it, checks the caller, and        *)
(* returns a Response holding an ordered list of messages that the host    *)
(* executes after the call returns.                                        *)
(***************************************************************************)
EXTENDS Integers, Sequences, FiniteSets, TLC

VARIABLES
    storage,    \* deps.storage, holding the item STATE: <<>> when absent, <<state>> when saved
    last,       \* the last entry-point call: its message, the store before it, its result
    queue,      \* messages of the last Response the host has still to execute
    executed,   \* messages of the last Response the host has executed successfully
    aborted,    \* TRUE when a message of the last Response failed and the host dropped the rest
    native_held, \* native coins received with committed deposits minus native coins released
    token_net    \* tokens minted minus tokens burned by the committed batches of this contract

vars == <<storage, last, queue, executed, aborted, native_held, token_net>>

----------------------------------------------------------------------------
(* Bounds of the model *)

\* Uint128 is modelled with UintBits bits instead of 128
UintBits == 3
\* longest list of attached funds
MaxFunds == 2

UintMod == 2 ^ UintBits
UintMax == UintMod - 1

----------------------------------------------------------------------------
(* Values *)

\* Addr values: addresses the host has validated (info.sender, env.contract.address)
Addrs == {"creator", "juno145tr"}
\* String values a message can carry unvalidated: "" is empty, "x" is malformed
Strings == Addrs \cup {"", "x"}
\* coin denominations
Denoms == {"juno", "btc"}
\* Uint128 values used as inputs
Amounts == {0, 1, 2, UintMax}

\* env.contract.address
ContractAddress == "cosmos2contract"

Coin(amount, denom) == [denom |-> denom, amount |-> amount]

\* amounts of the attached coins: UintMax + 1 is past the Uint128 range
FundAmounts == {1, UintMax}

Coins == {Coin(a, d) : a \in FundAmounts, d \in Denoms}

\* every list of at most n elements of S
RECURSIVE SeqsUpTo(_, _)
SeqsUpTo(S, n) ==
    IF n = 0 THEN {<<>>}
    ELSE LET shorter == SeqsUpTo(S, n - 1)
         IN  shorter \cup {Append(s, x) : s \in {t \in shorter : Len(t) = n - 1}, x \in S}

FundLists == SeqsUpTo(Coins, MaxFunds)

\* MessageInfo
MessageInfo(sender, funds) == [sender |-> sender, funds |-> funds]

----------------------------------------------------------------------------
(* Results *)

\* ContractError::Unauthorized, and the StdError kinds the handlers forward with `?`
Unauthorized == "Unauthorized"
NotFound == "NotFound"
InvalidAddr == "InvalidAddr"
QueryError == "QueryError"
\* an arithmetic panic aborts the call
Panic == "Panic"

\* Err(e): no Response at all
Err(e) == [ok |-> FALSE, err |-> e, messages |-> <<>>, attributes |-> <<>>]
\* Ok(Response { messages, attributes, .. })
Response(messages, attributes) ==
    [ok |-> TRUE, err |-> "", messages |-> messages, attributes |-> attributes]

\* attr(key, value): the value is rendered with to_string
attr(key, value) == [key |-> key, value |-> value]
\* Uint128's Display: the decimal digits
Uint128ToString(amount) == ToString(amount)

\* to_binary: the JSON encoding of a message, kept as a tagged copy
to_binary(m) == [json |-> m]

\* Cw20ExecuteMsg
Cw20Mint(recipient, amount) ==
    [variant |-> "mint", recipient |-> recipient, amount |-> amount]
Cw20Burn(amount) ==
    [variant |-> "burn", amount |-> amount]
Cw20TransferFrom(owner, recipient, amount) ==
    [variant |-> "transfer_from", owner |-> owner, recipient |-> recipient, amount |-> amount]

\* CosmosMsg::Wasm(WasmMsg::Execute { contract_addr, msg, send })
WasmExecute(contract_addr, msg, send) ==
    [type |-> "wasm_execute", contract_addr |-> contract_addr, msg |-> msg, send |-> send]
\* CosmosMsg::Bank(BankMsg::Send { to_address, amount })
BankSend(to_address, amount) ==
    [type |-> "bank_send", to_address |-> to_address, amount |-> amount]

----------------------------------------------------------------------------
(* Storage *)

State(owner, contract, native_coin) ==
    [owner |-> owner, contract |-> contract, native_coin |-> native_coin]

\* STATE.load: fails when nothing was saved
Loaded(store) == store # <<>>
\* STATE.save
Save(state) == <<state>>

\* deps.api.addr_validate: only well-formed addresses pass; "" and "x" do not
addr_validate(s) == s \in Addrs

\* what an entry point leaves behind: the store and the Result it returns
Outcome(store, result) == [storage |-> store, result |-> result]

----------------------------------------------------------------------------
(* Entry points *)

\* instantiate: the sender becomes owner, no token contract is set
instantiate(store, info, native_coin) ==
    Outcome(Save(State(info.sender, "", native_coin)), Response(<<>>, <<>>))

\* try_update_contract without the check that no token contract is set yet
try_update_contract_Rebind(store, info, contract) ==
    IF ~Loaded(store) THEN Outcome(store, Err(NotFound))
    ELSE LET state == store[1] IN
         IF info.sender # state.owner THEN Outcome(store, Err(Unauthorized))
         ELSE IF ~addr_validate(contract) THEN Outcome(store, Err(InvalidAddr))
         ELSE Outcome(Save([state EXCEPT !.contract = contract]), Response(<<>>, <<>>))

\* try_update_contract without the owner check
try_update_contract_AnySender(store, info, contract) ==
    IF ~Loaded(store) THEN Outcome(store, Err(NotFound))
    ELSE LET state == store[1] IN
         IF state.contract # "" THEN Outcome(store, Err(Unauthorized))
         ELSE IF ~addr_validate(contract) THEN Outcome(store, Err(InvalidAddr))
         ELSE Outcome(Save([state EXCEPT !.contract = contract]), Response(<<>>, <<>>))

\* try_update_contract writing the new contract into the native_coin field
try_update_contract_WrongField(store, info, contract) ==
    IF ~Loaded(store) THEN Outcome(store, Err(NotFound))
    ELSE LET state == store[1] IN
         IF info.sender # state.owner THEN Outcome(store, Err(Unauthorized))
         ELSE IF state.contract # "" THEN Outcome(store, Err(Unauthorized))
         ELSE IF ~addr_validate(contract) THEN Outcome(store, Err(InvalidAddr))
         ELSE Outcome(Save([state EXCEPT !.native_coin = contract]), Response(<<>>, <<>>))

\* try_update_contract storing the caller in place of the contract it was given
try_update_contract_StoreSender(store, info, contract) ==
    IF ~Loaded(store) THEN Outcome(store, Err(NotFound))
    ELSE LET state == store[1] IN
         IF info.sender # state.owner THEN Outcome(store, Err(Unauthorized))
         ELSE IF state.contract # "" THEN Outcome(store, Err(Unauthorized))
         ELSE IF ~addr_validate(contract) THEN Outcome(store, Err(InvalidAddr))
         ELSE Outcome(Save([state EXCEPT !.contract = info.sender]), Response(<<>>, <<>>))

\* try_update_contract saving the new contract before it validates it
try_update_contract_SaveFirst(store, info, contract) ==
    IF ~Loaded(store) THEN Outcome(store, Err(NotFound))
    ELSE LET state == store[1]
             saved == Save([state EXCEPT !.contract = contract])
         IN
         IF info.sender # state.owner THEN Outcome(store, Err(Unauthorized))
         ELSE IF state.contract # "" THEN Outcome(store, Err(Unauthorized))
         ELSE IF ~addr_validate(contract) THEN Outcome(saved, Err(InvalidAddr))
         ELSE Outcome(saved, Response(<<>>, <<>>))

\* ExecuteMsg::SetContract
try_update_contract(store, info, contract) ==
    IF ~Loaded(store) THEN Outcome(store, Err(NotFound))
    ELSE LET state == store[1] IN
         IF info.sender # state.owner THEN Outcome(store, Err(Unauthorized))
         ELSE IF state.contract # "" THEN Outcome(store, Err(Unauthorized))
         ELSE IF ~addr_validate(contract) THEN Outcome(store, Err(InvalidAddr))
         ELSE Outcome(Save([state EXCEPT !.contract = contract]), Response(<<>>, <<>>))

\* Uint128 + Uint128 inside the fold: a sum past the Uint128 range panics in a
\* build with overflow checks and wraps in a build without them
Uint128Add(acc, amount, overflow_checks) ==
    IF acc.panicked THEN acc
    ELSE IF acc.value + amount > UintMax
         THEN IF overflow_checks
              THEN [panicked |-> TRUE, value |-> 0]
              ELSE [panicked |-> FALSE, value |-> (acc.value + amount) % UintMod]
         ELSE [panicked |-> FALSE, value |-> acc.value + amount]

\* the fold leaving out the last of the funds
RECURSIVE FoldAmounts_DropLast(_, _, _)
FoldAmounts_DropLast(funds, acc, overflow_checks) ==
    IF Len(funds) <= 1 THEN acc
    ELSE FoldAmounts_DropLast(Tail(funds),
                              Uint128Add(acc, Head(funds).amount, overflow_checks),
                              overflow_checks)

\* funds.iter().map(|x| x.amount).fold(0u8.into(), |acc, amount| acc + amount)
RECURSIVE FoldAmounts(_, _, _)
FoldAmounts(funds, acc, overflow_checks) ==
    IF funds = <<>> THEN acc
    ELSE FoldAmounts(Tail(funds), Uint128Add(acc, Head(funds).amount, overflow_checks),
                     overflow_checks)

\* the denomination check looking at the first of the funds only
AnyOtherDenom_FirstOnly(funds, native_coin) ==
    funds # <<>> /\ funds[1].denom # native_coin

\* info.funds.iter().any(|x| x.denom.ne(&state.native_coin))
AnyOtherDenom(funds, native_coin) ==
    \E i \in 1..Len(funds) : funds[i].denom # native_coin

\* ExecuteMsg::Deposit
try_deposit(store, info, overflow_checks) ==
    IF ~Loaded(store) THEN Outcome(store, Err(NotFound))
    ELSE LET state == store[1] IN
         IF AnyOtherDenom(info.funds, state.native_coin)
         THEN Outcome(store, Err(Unauthorized))
         ELSE LET amount_to == FoldAmounts(info.funds, [panicked |-> FALSE, value |-> 0],
                                           overflow_checks)
                  mint == Cw20Mint(info.sender, amount_to.value)
                  message == WasmExecute(state.contract, to_binary(mint), <<>>)
                  attributes == << attr("action", "deposit"),
                                   attr("amount", Uint128ToString(amount_to.value)),
                                   attr("sender", info.sender) >>
              IN  IF amount_to.panicked THEN Outcome(store, Err(Panic))
                  ELSE Outcome(store, Response(<<message>>, attributes))

\* try_withdraw taking a failed allowance query for the default AllowanceResponse
try_withdraw_DefaultOnQueryError(store, querier, env, info, amount) ==
    IF ~Loaded(store) THEN Outcome(store, Err(NotFound))
    ELSE LET state == store[1]
             allowance == IF querier.ok THEN querier.allowance ELSE 0
         IN
         IF amount > allowance THEN Outcome(store, Err(Unauthorized))
         ELSE LET burn == Cw20TransferFrom(info.sender, env.contract.address, amount)
                  message == WasmExecute(state.contract, to_binary(burn), <<>>)
                  burn2 == Cw20Burn(amount)
                  burn_msg == WasmExecute(state.contract, to_binary(burn2), <<>>)
                  bank_send == BankSend(info.sender, <<Coin(amount, state.native_coin)>>)
              IN  Outcome(store,
                          Response(<<message, burn_msg, bank_send>>,
                                   << attr("action", "withdraw"),
                                      attr("amount", Uint128ToString(amount)),
                                      attr("sender", info.sender) >>))

\* try_withdraw addressing the burn to the wrapper itself instead of the token contract
try_withdraw_BurnAtSelf(store, querier, env, info, amount) ==
    IF ~Loaded(store) THEN Outcome(store, Err(NotFound))
    ELSE LET state == store[1] IN
         IF ~querier.ok THEN Outcome(store, Err(QueryError))
         ELSE IF amount > querier.allowance THEN Outcome(store, Err(Unauthorized))
         ELSE LET burn == Cw20TransferFrom(info.sender, env.contract.address, amount)
                  message == WasmExecute(state.contract, to_binary(burn), <<>>)
                  burn2 == Cw20Burn(amount)
                  burn_msg == WasmExecute(env.contract.address, to_binary(burn2), <<>>)
                  bank_send == BankSend(info.sender, <<Coin(amount, state.native_coin)>>)
              IN  Outcome(store,
                          Response(<<message, burn_msg, bank_send>>,
                                   << attr("action", "withdraw"),
                                      attr("amount", Uint128ToString(amount)),
                                      attr("sender", info.sender) >>))

\* try_withdraw refusing an amount equal to the allowance
try_withdraw_OffByOne(store, querier, env, info, amount) ==
    IF ~Loaded(store) THEN Outcome(store, Err(NotFound))
    ELSE LET state == store[1] IN
         IF ~querier.ok THEN Outcome(store, Err(QueryError))
         ELSE IF amount >= querier.allowance THEN Outcome(store, Err(Unauthorized))
         ELSE LET burn == Cw20TransferFrom(info.sender, env.contract.address, amount)
                  message == WasmExecute(state.contract, to_binary(burn), <<>>)
                  burn2 == Cw20Burn(amount)
                  burn_msg == WasmExecute(state.contract, to_binary(burn2), <<>>)
                  bank_send == BankSend(info.sender, <<Coin(amount, state.native_coin)>>)
              IN  Outcome(store,
                          Response(<<message, burn_msg, bank_send>>,
                                   << attr("action", "withdraw"),
                                      attr("amount", Uint128ToString(amount)),
                                      attr("sender", info.sender) >>))

\* try_withdraw pulling the tokens from the contract itself instead of the caller
try_withdraw_PullFromSelf(store, querier, env, info, amount) ==
    IF ~Loaded(store) THEN Outcome(store, Err(NotFound))
    ELSE LET state == store[1] IN
         IF ~querier.ok THEN Outcome(store, Err(QueryError))
         ELSE IF amount > querier.allowance THEN Outcome(store, Err(Unauthorized))
         ELSE LET burn == Cw20TransferFrom(env.contract.address, env.contract.address, amount)
                  message == WasmExecute(state.contract, to_binary(burn), <<>>)
                  burn2 == Cw20Burn(amount)
                  burn_msg == WasmExecute(state.contract, to_binary(burn2), <<>>)
                  bank_send == BankSend(info.sender, <<Coin(amount, state.native_coin)>>)
              IN  Outcome(store,
                          Response(<<message, burn_msg, bank_send>>,
                                   << attr("action", "withdraw"),
                                      attr("amount", Uint128ToString(amount)),
                                      attr("sender", info.sender) >>))

\* try_withdraw queueing the release of the native coins first
try_withdraw_SendFirst(store, querier, env, info, amount) ==
    IF ~Loaded(store) THEN Outcome(store, Err(NotFound))
    ELSE LET state == store[1] IN
         IF ~querier.ok THEN Outcome(store, Err(QueryError))
         ELSE IF amount > querier.allowance THEN Outcome(store, Err(Unauthorized))
         ELSE LET burn == Cw20TransferFrom(info.sender, env.contract.address, amount)
                  message == WasmExecute(state.contract, to_binary(burn), <<>>)
                  burn2 == Cw20Burn(amount)
                  burn_msg == WasmExecute(state.contract, to_binary(burn2), <<>>)
                  bank_send == BankSend(info.sender, <<Coin(amount, state.native_coin)>>)
              IN  Outcome(store,
                          Response(<<bank_send, message, burn_msg>>,
                                   << attr("action", "withdraw"),
                                      attr("amount", Uint128ToString(amount)),
                                      attr("sender", info.sender) >>))

\* ExecuteMsg::Withdraw; querier is what deps.querier.query returns for the
\* Allowance { owner: info.sender, spender: env.contract.address } query
try_withdraw(store, querier, env, info, amount) ==
    IF ~Loaded(store) THEN Outcome(store, Err(NotFound))
    ELSE LET state == store[1] IN
         IF ~querier.ok THEN Outcome(store, Err(QueryError))
         ELSE IF amount > querier.allowance THEN Outcome(store, Err(Unauthorized))
         ELSE LET burn == Cw20TransferFrom(info.sender, env.contract.address, amount)
                  message == WasmExecute(state.contract, to_binary(burn), <<>>)
                  burn2 == Cw20Burn(amount)
                  burn_msg == WasmExecute(state.contract, to_binary(burn2), <<>>)
                  bank_send == BankSend(info.sender, <<Coin(amount, state.native_coin)>>)
              IN  Outcome(store,
                          Response(<<message, burn_msg, bank_send>>,
                                   << attr("action", "withdraw"),
                                      attr("amount", Uint128ToString(amount)),
                                      attr("sender", info.sender) >>))

\* try_receive reporting the notifier as the sender attribute
try_receive_AttrNotifier(store, info, sender, amount) ==
    IF ~Loaded(store) THEN Outcome(store, Err(NotFound))
    ELSE LET state == store[1] IN
         IF info.sender # state.contract THEN Outcome(store, Err(Unauthorized))
         ELSE LET burn == Cw20Burn(amount)
                  burn_msg == WasmExecute(state.contract, to_binary(burn), <<>>)
                  bank_send == BankSend(sender, <<Coin(amount, state.native_coin)>>)
              IN  Outcome(store,
                          Response(<<burn_msg, bank_send>>,
                                   << attr("action", "receive_to_withdraw"),
                                      attr("amount", Uint128ToString(amount)),
                                      attr("sender", info.sender) >>))

\* try_receive accepting a notification from anyone
try_receive_AnyNotifier(store, info, sender, amount) ==
    IF ~Loaded(store) THEN Outcome(store, Err(NotFound))
    ELSE LET state == store[1]
             burn == Cw20Burn(amount)
             burn_msg == WasmExecute(state.contract, to_binary(burn), <<>>)
             bank_send == BankSend(sender, <<Coin(amount, state.native_coin)>>)
         IN  Outcome(store,
                     Response(<<burn_msg, bank_send>>,
                              << attr("action", "receive_to_withdraw"),
                                 attr("amount", Uint128ToString(amount)),
                                 attr("sender", sender) >>))

\* try_receive releasing the native coins to the notifier instead of the original sender
try_receive_PayNotifier(store, info, sender, amount) ==
    IF ~Loaded(store) THEN Outcome(store, Err(NotFound))
    ELSE LET state == store[1] IN
         IF info.sender # state.contract THEN Outcome(store, Err(Unauthorized))
         ELSE LET burn == Cw20Burn(amount)
                  burn_msg == WasmExecute(state.contract, to_binary(burn), <<>>)
                  bank_send == BankSend(info.sender, <<Coin(amount, state.native_coin)>>)
              IN  Outcome(store,
                          Response(<<burn_msg, bank_send>>,
                                   << attr("action", "receive_to_withdraw"),
                                      attr("amount", Uint128ToString(amount)),
                                      attr("sender", sender) >>))

\* ExecuteMsg::Receive(Cw20ReceiveMsg { amount, sender, .. })
try_receive(store, info, sender, amount) ==
    IF ~Loaded(store) THEN Outcome(store, Err(NotFound))
    ELSE LET state == store[1] IN
         IF info.sender # state.contract THEN Outcome(store, Err(Unauthorized))
         ELSE LET burn == Cw20Burn(amount)
                  burn_msg == WasmExecute(state.contract, to_binary(burn), <<>>)
                  bank_send == BankSend(sender, <<Coin(amount, state.native_coin)>>)
              IN  Outcome(store,
                          Response(<<burn_msg, bank_send>>,
                                   << attr("action", "receive_to_withdraw"),
                                      attr("amount", Uint128ToString(amount)),
                                      attr("sender", sender) >>))

\* InfoResponse
InfoResponse(cw20_contract, native_coin) ==
    [cw20_contract |-> cw20_contract, native_coin |-> native_coin]

\* query_ctr_info answering with the owner in place of the token contract
query_ctr_info_Owner(store) ==
    IF ~Loaded(store) THEN [ok |-> FALSE, err |-> NotFound]
    ELSE [ok |-> TRUE, err |-> "",
          value |-> InfoResponse(store[1].owner, store[1].native_coin)]

\* query_ctr_info: StdResult<InfoResponse>
query_ctr_info(store) ==
    IF ~Loaded(store) THEN [ok |-> FALSE, err |-> NotFound]
    ELSE [ok |-> TRUE, err |-> "",
          value |-> InfoResponse(store[1].contract, store[1].native_coin)]

\* query: QueryMsg::Info {} => to_binary(&query_ctr_info(deps)?)
query(store) ==
    LET res == query_ctr_info(store)
    IN  IF res.ok THEN [ok |-> TRUE, err |-> "", data |-> to_binary(res.value)]
        ELSE res

----------------------------------------------------------------------------
(* The state machine *)

\* the message of a call, with the inputs the call does not use left at their defaults
Call(op, info, contract, sender, amount, querier, overflow_checks) ==
    [op |-> op, info |-> info, contract |-> contract, sender |-> sender,
     amount |-> amount, querier |-> querier, overflow_checks |-> overflow_checks]

NoQuery == [ok |-> FALSE, allowance |-> 0]
\* what the token contract can answer to the allowance query
QuerierResults == {NoQuery} \cup {[ok |-> TRUE, allowance |-> a] : a \in Amounts}

Env == [contract |-> [address |-> ContractAddress]]

NoCall == Call("none", MessageInfo("", <<>>), "", "", 0, NoQuery, TRUE)

Init ==
    /\ storage = <<>>
    /\ last = [msg |-> NoCall, pre |-> <<>>, res |-> Response(<<>>, <<>>)]
    /\ queue = <<>>
    /\ executed = <<>>
    /\ aborted = FALSE
    /\ native_held = 0
    /\ token_net = 0

\* the host runs a call to its end, then hands the returned messages to its queue
Return(msg, out) ==
    /\ last' = [msg |-> msg, pre |-> storage, res |-> out.result]
    /\ storage' = out.storage
    /\ queue' = out.result.messages
    /\ executed' = <<>>
    /\ aborted' = FALSE
    /\ UNCHANGED <<native_held, token_net>>

\* the host instantiates a deployment once, before any other call
Instantiate ==
    /\ storage = <<>>
    /\ queue = <<>>
    /\ \E sender \in Addrs, native_coin \in Denoms :
          LET info == MessageInfo(sender, <<>>)
          IN  Return(Call("instantiate", info, native_coin, "", 0, NoQuery, TRUE),
                     instantiate(storage, info, native_coin))

SetContract ==
    /\ queue = <<>>
    /\ \E sender \in Addrs, contract \in Strings :
          LET info == MessageInfo(sender, <<>>)
          IN  Return(Call("set_contract", info, contract, "", 0, NoQuery, TRUE),
                     try_update_contract(storage, info, contract))

Deposit ==
    /\ queue = <<>>
    /\ \E sender \in Addrs, funds \in FundLists, overflow_checks \in BOOLEAN :
          LET info == MessageInfo(sender, funds)
          IN  Return(Call("deposit", info, "", "", 0, NoQuery, overflow_checks),
                     try_deposit(storage, info, overflow_checks))

Withdraw ==
    /\ queue = <<>>
    /\ \E sender \in Addrs, amount \in Amounts, querier \in QuerierResults :
          LET info == MessageInfo(sender, <<>>)
          IN  Return(Call("withdraw", info, "", "", amount, querier, TRUE),
                     try_withdraw(storage, querier, Env, info, amount))

Receive ==
    /\ queue = <<>>
    /\ \E notifier \in Addrs, sender \in Strings, amount \in Amounts :
          LET info == MessageInfo(notifier, <<>>)
          IN  Return(Call("receive", info, "", sender, amount, NoQuery, TRUE),
                     try_receive(storage, info, sender, amount))

\* a query reads the store through Deps and returns no message
Query ==
    /\ queue = <<>>
    /\ last' = [msg |-> Call("query", MessageInfo("", <<>>), "", "", 0, NoQuery, TRUE),
                pre |-> storage, res |-> query(storage)]
    /\ executed' = <<>>
    /\ aborted' = FALSE
    /\ UNCHANGED <<storage, queue, native_held, token_net>>

\* the host executes the next queued message and it succeeds
HostExecute ==
    /\ queue # <<>>
    /\ executed' = Append(executed, Head(queue))
    /\ queue' = Tail(queue)
    /\ UNCHANGED <<storage, last, aborted, native_held, token_net>>

\* the next queued message fails: the host drops the rest of the batch
HostAbort ==
    /\ queue # <<>>
    /\ queue' = <<>>
    /\ aborted' = TRUE
    /\ UNCHANGED <<storage, last, executed, native_held, token_net>>

\* the amounts of a list of coins, added up
RECURSIVE CoinsTotal(_)
CoinsTotal(coins) ==
    IF coins = <<>> THEN 0 ELSE Head(coins).amount + CoinsTotal(Tail(coins))

\* the native coins the bank sends of a batch release
RECURSIVE BatchReleased(_)
BatchReleased(messages) ==
    IF messages = <<>> THEN 0
    ELSE (IF Head(messages).type = "bank_send" THEN CoinsTotal(Head(messages).amount) ELSE 0)
         + BatchReleased(Tail(messages))

\* the tokens the ledger calls of a batch with the given variant mint or burn
RECURSIVE BatchTokens(_, _)
BatchTokens(messages, variant) ==
    IF messages = <<>> THEN 0
    ELSE (IF /\ Head(messages).type = "wasm_execute"
             /\ Head(messages).msg.json.variant = variant
          THEN Head(messages).msg.json.amount ELSE 0)
         + BatchTokens(Tail(messages), variant)

\* the most native coins the wrapper is let hold: one overflowing deposit fits
HeldCap == UintMod

\* the host executes a whole batch together with the funds attached to the
\* call: every ledger call reaches a contract and is accepted, the ledger
\* burns no more than the tokens that exist, and the bank sends go to an
\* address and do not exceed what the wrapper holds
HostCommit ==
    /\ queue # <<>>
    /\ executed = <<>>
    /\ \A i \in 1..Len(queue) :
          /\ queue[i].type = "wasm_execute" => queue[i].contract_addr \in Addrs
          /\ queue[i].type = "bank_send" => queue[i].to_address \in Addrs
    /\ LET held == native_held + CoinsTotal(last.msg.info.funds) - BatchReleased(queue)
       IN  /\ held >= 0
           /\ held <= HeldCap
           /\ native_held' = held
    /\ LET net == token_net + BatchTokens(queue, "mint") - BatchTokens(queue, "burn")
       IN  /\ net >= 0
           /\ token_net' = net
    /\ executed' = queue
    /\ queue' = <<>>
    /\ UNCHANGED <<storage, last, aborted>>

Next ==
    \/ Instantiate
    \/ SetContract
    \/ Deposit
    \/ Withdraw
    \/ Receive
    \/ Query
    \/ HostExecute
    \/ HostAbort

Spec == Init /\ [][Next]_vars

\* the host executing every batch as a whole or not at all
NextBacking ==
    \/ Instantiate
    \/ SetContract
    \/ Deposit
    \/ Withdraw
    \/ Receive
    \/ HostCommit
    \/ HostAbort

SpecBacking == Init /\ [][NextBacking]_vars

----------------------------------------------------------------------------
(* Properties *)

\* the last call was `op`, made on an instantiated deployment
Called(op) == last.msg.op = op /\ Loaded(last.pre)
\* the Configuration the last call started from
Before == last.pre[1]
\* the caller of the last call
Caller == last.msg.info.sender
\* the last call failed with error e and returned no message
Failed(e) == ~last.res.ok /\ last.res.err = e /\ last.res.messages = <<>>

\* a1 + ... + an over the integers
RECURSIVE SumAmounts(_)
SumAmounts(funds) ==
    IF funds = <<>> THEN 0 ELSE Head(funds).amount + SumAmounts(Tail(funds))

AllNative(funds, native_coin) ==
    \A i \in 1..Len(funds) : funds[i].denom = native_coin

IsLedgerCall(m, payload) ==
    m.type = "wasm_execute" /\ m.msg = to_binary(payload)

\* C1: bind_ledger succeeds at most once per deployment: a successful call
\* moves ledger_ref from empty to a non-empty value, every later call fails
\* with Unauthorized whoever calls it, and ledger_ref keeps the value set by
\* the first successful call.
C1_BindOnce ==
    /\ [](Called("set_contract") /\ last.res.ok
            => /\ Before.contract = ""
               /\ storage[1].contract # ""
               /\ storage[1].contract = last.msg.contract)
    /\ [](Called("set_contract") /\ Before.contract # ""
            => Failed(Unauthorized) /\ storage = last.pre)
    /\ [][Loaded(storage) /\ storage[1].contract # "" => storage' = storage]_vars

\* the owner tries to bind a second ledger and is refused
C1_Witness ==
    /\ Called("set_contract")
    /\ Before.contract # ""
    /\ Caller = Before.owner
    /\ last.msg.contract \in Addrs
    /\ last.msg.contract # Before.contract
    /\ ~last.res.ok

\* C2 as stated: a caller other than the owner gets Unauthorized, and the
\* owner's bind_ledger succeeds whenever ledger_ref is still empty.
C2_Original ==
    Called("set_contract")
        => /\ Caller # Before.owner => Failed(Unauthorized)
           /\ Caller = Before.owner /\ Before.contract = "" => last.res.ok

\* C2: a caller other than the owner gets Unauthorized, bound or not; the
\* owner's bind_ledger on an empty ledger_ref succeeds exactly when the
\* argument is a well-formed address, and fails with the address error,
\* leaving the Configuration unchanged, when it is not.
C2_OwnerBinds ==
    Called("set_contract")
        => /\ Caller # Before.owner => Failed(Unauthorized) /\ storage = last.pre
           /\ Caller = Before.owner /\ Before.contract = ""
                => IF last.msg.contract \in Addrs
                   THEN last.res.ok
                   ELSE Failed(InvalidAddr) /\ storage = last.pre

\* a caller who is not the owner is refused while no ledger is bound
C2_Witness ==
    /\ Called("set_contract")
    /\ Caller # Before.owner
    /\ Before.contract = ""
    /\ last.msg.contract \in Addrs
    /\ Failed(Unauthorized)

\* C3: notify_received succeeds only when the notifier is the bound
\* ledger_ref; any other notifier, and every notifier while no ledger is
\* bound, gets Unauthorized and no actions.
C3_ReceiveAuthentic ==
    Called("receive")
        => /\ last.res.ok <=> Caller = Before.contract
           /\ Caller # Before.contract => Failed(Unauthorized)
           /\ Before.contract = "" => Failed(Unauthorized)

\* a notifier other than the bound ledger is refused
C3_Witness ==
    /\ Called("receive")
    /\ Before.contract # ""
    /\ Caller # Before.contract
    /\ Failed(Unauthorized)

\* C4: once the ledger has reported an allowance, withdraw of A succeeds
\* iff A <= allowance, and for A > allowance fails with Unauthorized and no
\* actions.
C4_AllowanceGate ==
    Called("withdraw") /\ last.msg.querier.ok
        => /\ last.res.ok <=> last.msg.amount <= last.msg.querier.allowance
           /\ last.msg.amount > last.msg.querier.allowance => Failed(Unauthorized)

\* a withdraw of exactly the allowance succeeds
C4_Witness ==
    /\ Called("withdraw")
    /\ last.msg.querier.ok
    /\ last.msg.amount = last.msg.querier.allowance
    /\ last.msg.amount > 0
    /\ last.res.ok

\* C5: a successful withdraw returns exactly TransferFrom{owner = caller,
\* recipient = this contract, amount}, Burn{amount}, NativeTransfer{caller,
\* [(native_denom, amount)]}, in this order.
C5_WithdrawBatch ==
    Called("withdraw") /\ last.res.ok
        => /\ Len(last.res.messages) = 3
           /\ IsLedgerCall(last.res.messages[1],
                           Cw20TransferFrom(Caller, ContractAddress, last.msg.amount))
           /\ IsLedgerCall(last.res.messages[2], Cw20Burn(last.msg.amount))
           /\ last.res.messages[3]
                = BankSend(Caller, <<Coin(last.msg.amount, Before.native_coin)>>)

\* a withdraw of a positive amount succeeded
C5_Witness ==
    /\ Called("withdraw")
    /\ last.res.ok
    /\ last.msg.amount > 0
    /\ last.msg.amount < last.msg.querier.allowance

\* C6: with the host executing a withdraw batch in order and dropping the
\* rest at the first failure, the NativeTransfer executes only after the
\* TransferFrom and then the Burn of the same batch have executed.
C6_ReleaseAfterBurn ==
    Called("withdraw")
        => \A i \in 1..Len(executed) :
              executed[i].type = "bank_send"
                => \E j \in 1..(i - 1), k \in 1..(i - 1) :
                      /\ j < k
                      /\ IsLedgerCall(executed[j],
                                      Cw20TransferFrom(Caller, ContractAddress,
                                                       last.msg.amount))
                      /\ IsLedgerCall(executed[k], Cw20Burn(last.msg.amount))

\* the host has executed the whole batch of a withdraw
C6_Witness ==
    /\ Called("withdraw")
    /\ Len(executed) = 3
    /\ executed[3].type = "bank_send"
    /\ queue = <<>>
    /\ ~aborted

\* C7 as stated: every fund list of native_denom entries yields exactly one
\* Mint{recipient = depositor, amount = a1 + ... + an}.
C7_Original ==
    Called("deposit") /\ AllNative(last.msg.info.funds, Before.native_coin)
        => /\ last.res.ok
           /\ Len(last.res.messages) = 1
           /\ IsLedgerCall(last.res.messages[1],
                           Cw20Mint(Caller, SumAmounts(last.msg.info.funds)))

\* C7: every fund list of native_denom entries whose sum a1 + ... + an is
\* within the Uint128 range yields exactly one Mint{recipient = depositor,
\* amount = a1 + ... + an}.
C7_DepositSum ==
    (/\ Called("deposit")
     /\ AllNative(last.msg.info.funds, Before.native_coin)
     /\ SumAmounts(last.msg.info.funds) <= UintMax)
        => /\ last.res.ok
           /\ Len(last.res.messages) = 1
           /\ IsLedgerCall(last.res.messages[1],
                           Cw20Mint(Caller, SumAmounts(last.msg.info.funds)))

\* a deposit of two native coins minted their sum
C7_Witness ==
    /\ Called("deposit")
    /\ Len(last.msg.info.funds) = 2
    /\ AllNative(last.msg.info.funds, Before.native_coin)
    /\ last.res.ok
    /\ last.res.messages[1].msg.json.amount = 2

\* C8: a fund list with an entry of another denom, wherever it sits, makes
\* deposit fail with Unauthorized and no actions.
C8_DenomFilter ==
    Called("deposit") /\ ~AllNative(last.msg.info.funds, Before.native_coin)
        => Failed(Unauthorized)

\* a deposit whose second coin is of another denom is refused
C8_Witness ==
    /\ Called("deposit")
    /\ Len(last.msg.info.funds) = 2
    /\ last.msg.info.funds[1].denom = Before.native_coin
    /\ last.msg.info.funds[2].denom # Before.native_coin
    /\ Failed(Unauthorized)

\* C9: a successful notify_received returns exactly Burn{amount}, then
\* NativeTransfer{original sender, [(native_denom, amount)]}, and no
\* TransferFrom.
C9_ReceiveBatch ==
    Called("receive") /\ last.res.ok
        => /\ Len(last.res.messages) = 2
           /\ IsLedgerCall(last.res.messages[1], Cw20Burn(last.msg.amount))
           /\ last.res.messages[2]
                = BankSend(last.msg.sender,
                           <<Coin(last.msg.amount, Before.native_coin)>>)
           /\ \A i \in 1..Len(last.res.messages) :
                 last.res.messages[i].type = "wasm_execute"
                    => last.res.messages[i].msg.json.variant # "transfer_from"

\* a notification from the ledger on behalf of another sender succeeded
C9_Witness ==
    /\ Called("receive")
    /\ last.res.ok
    /\ last.msg.sender # Caller
    /\ last.msg.sender \in Addrs
    /\ last.msg.amount > 0

\* C10: an operation that returns an error leaves the Configuration as it
\* was and returns no actions.
C10_ErrorsAtomic ==
    (/\ last.msg.op \in {"set_contract", "deposit", "withdraw", "receive"}
     /\ ~last.res.ok)
        => /\ storage = last.pre
           /\ last.res.messages = <<>>
           /\ queue = <<>>
           /\ executed = <<>>

\* the owner's bind_ledger with a malformed address failed
C10_Witness ==
    /\ Called("set_contract")
    /\ Caller = Before.owner
    /\ Before.contract = ""
    /\ last.msg.contract = "x"
    /\ Failed(InvalidAddr)


\* the error kind the specification gives a fund sum past the Uint128 range
ArithmeticOverflow == "ArithmeticOverflow"

\* C11: when the sum of the attached fund amounts is past the Uint128
\* range, deposit fails with ArithmeticOverflow and returns no action,
\* never a Mint of the sum reduced modulo 2^128.
C11_OverflowIsError ==
    (/\ Called("deposit")
     /\ AllNative(last.msg.info.funds, Before.native_coin)
     /\ SumAmounts(last.msg.info.funds) > UintMax)
        => Failed(ArithmeticOverflow)


\* C12: after initialize, owner and native_denom keep the values set at
\* initialize in every reachable state, ledger_ref changes only in a
\* successful bind_ledger step, and deposit, withdraw, notify_received and
\* get_info leave the whole Configuration unchanged.
C12_ConfigurationFrame ==
    /\ [](last.msg.op = "instantiate"
            => storage = <<State(last.msg.info.sender, "", last.msg.contract)>>)
    /\ [][Loaded(storage)
            => /\ Loaded(storage')
               /\ storage'[1].owner = storage[1].owner
               /\ storage'[1].native_coin = storage[1].native_coin
               /\ storage' # storage
                    => last'.msg.op = "set_contract" /\ last'.res.ok]_vars
    /\ [](last.msg.op \in {"deposit", "withdraw", "receive", "query"}
            => storage = last.pre)

\* a notification from the bound ledger went through and the Configuration is as before
C12_Witness ==
    /\ Called("receive")
    /\ last.res.ok
    /\ queue = <<>>
    /\ Len(executed) = 2
    /\ storage = last.pre


\* C13: get_info succeeds in every initialized state, returns exactly the
\* current (ledger_ref, native_denom) and leaves the Configuration
\* unchanged; right after initialize(native_denom = d) it returns an empty
\* ledger_ref and d; it fails only when nothing was ever saved.
C13_GetInfo ==
    /\ [](last.msg.op = "query"
            => /\ storage = last.pre
               /\ IF Loaded(last.pre)
                  THEN /\ last.res.ok
                       /\ last.res.data
                            = to_binary(InfoResponse(Before.contract, Before.native_coin))
                  ELSE ~last.res.ok /\ last.res.err = NotFound)
    /\ [][last.msg.op = "instantiate" /\ last'.msg.op = "query"
            => /\ last'.res.ok
               /\ last'.res.data = to_binary(InfoResponse("", last.msg.contract))]_vars

\* get_info answered on a deployment with a bound ledger
C13_Witness ==
    /\ Called("query")
    /\ Before.contract # ""
    /\ Before.contract # Before.owner
    /\ last.res.ok


\* C14: in withdraw the allowance query completes before any action is
\* built: a failed query makes withdraw fail with the query error and no
\* actions, and a batch is returned only when the completed query reported
\* an allowance >= amount.
C14_QueryBeforeActions ==
    Called("withdraw")
        => /\ ~last.msg.querier.ok => Failed(QueryError)
           /\ last.res.ok \/ last.res.messages # <<>>
                => /\ last.msg.querier.ok
                   /\ last.msg.querier.allowance >= last.msg.amount

\* a withdraw on a bound ledger whose allowance query failed
C14_Witness ==
    /\ Called("withdraw")
    /\ Before.contract # ""
    /\ ~last.msg.querier.ok
    /\ last.msg.amount = 0
    /\ Failed(QueryError)


\* C15: a successful bind_ledger(owner, r) returns no action and only sets
\* ledger_ref to r; from then on ledger_ref stays r and every get_info
\* returns ledger_ref = r.
C15_BindSetsLedger ==
    /\ [](Called("set_contract") /\ last.res.ok
            => /\ last.res.messages = <<>>
               /\ last.msg.contract # ""
               /\ storage = <<[Before EXCEPT !.contract = last.msg.contract]>>)
    /\ [][Loaded(storage) /\ storage[1].contract # ""
            => /\ Loaded(storage')
               /\ storage'[1].contract = storage[1].contract
               /\ last'.msg.op = "query"
                    => /\ last'.res.ok
                       /\ last'.res.data.json.cw20_contract = storage[1].contract]_vars

\* the owner bound a ledger other than itself
C15_Witness ==
    /\ Called("set_contract")
    /\ last.res.ok
    /\ last.msg.contract # Caller
    /\ storage[1].contract = last.msg.contract


\* C16: in every batch returned by deposit, withdraw or notify_received,
\* every token-ledger call targets the ledger_ref the Configuration held at
\* the call, and every NativeTransfer carries exactly one (denom, amount)
\* pair, of denom native_denom.
C16_Targets ==
    (/\ last.msg.op \in {"deposit", "withdraw", "receive"}
     /\ Loaded(last.pre))
        => \A i \in 1..Len(last.res.messages) :
              LET m == last.res.messages[i]
              IN  /\ m.type \in {"wasm_execute", "bank_send"}
                  /\ m.type = "wasm_execute"
                        => /\ m.contract_addr = Before.contract
                           /\ m.msg.json.variant \in {"mint", "transfer_from", "burn"}
                           /\ m.send = <<>>
                  /\ m.type = "bank_send"
                        => /\ Len(m.amount) = 1
                           /\ m.amount[1].denom = Before.native_coin

\* a withdraw on a bound ledger returned its batch
C16_Witness ==
    /\ Called("withdraw")
    /\ Before.contract # ""
    /\ last.res.ok
    /\ Len(last.res.messages) = 3
    /\ last.res.messages[2].contract_addr = Before.contract


\* C17: every successful deposit, withdraw and notify_received returns
\* exactly the attributes action, amount, sender in this order: action is
\* "deposit", "withdraw" or "receive_to_withdraw"; amount is the minted
\* amount (deposit) or the requested or notified amount; sender is the
\* caller (deposit, withdraw) or the original sender of the notification.
C17_Attributes ==
    /\ Called("deposit") /\ last.res.ok
         => last.res.attributes
              = << [key |-> "action", value |-> "deposit"],
                   [key |-> "amount",
                    value |-> ToString(last.res.messages[1].msg.json.amount)],
                   [key |-> "sender", value |-> Caller] >>
    /\ Called("withdraw") /\ last.res.ok
         => last.res.attributes
              = << [key |-> "action", value |-> "withdraw"],
                   [key |-> "amount", value |-> ToString(last.msg.amount)],
                   [key |-> "sender", value |-> Caller] >>
    /\ Called("receive") /\ last.res.ok
         => last.res.attributes
              = << [key |-> "action", value |-> "receive_to_withdraw"],
                   [key |-> "amount", value |-> ToString(last.msg.amount)],
                   [key |-> "sender", value |-> last.msg.sender] >>

\* a notification on behalf of a sender other than the ledger returned its attributes
C17_Witness ==
    /\ Called("receive")
    /\ last.res.ok
    /\ last.msg.sender # Caller
    /\ Len(last.res.attributes) = 3
    /\ last.res.attributes[3].value = last.msg.sender


\* C18: no operation returns a token-ledger call whose target is the empty
\* ledger_ref: while no ledger is bound, deposit, withdraw and
\* notify_received return no actions.
C18_NoCallToUnsetLedger ==
    (/\ last.msg.op \in {"deposit", "withdraw", "receive"}
     /\ Loaded(last.pre))
        => /\ \A i \in 1..Len(last.res.messages) :
                 last.res.messages[i].type = "wasm_execute"
                    => last.res.messages[i].contract_addr # ""
           /\ Before.contract = "" => last.res.messages = <<>>


\* C19: with every batch executed as a whole or not at all together with
\* the attached funds, the native amount released never exceeds the native
\* amount deposited, and deposited minus released equals minted minus
\* burned.
C19_BackingConserved ==
    /\ native_held >= 0
    /\ native_held = token_net

====
